---------------------------- MODULE Spec2Model ----------------------------
(***************************************************************************)
(* Yosoi: selector discovery pipeline.                                     *)
(*                                                                         *)
(* The module models                                                       *)
(*   - SelectorVerifier (yosoi/core/verification/verifier.py),             *)
(*   - ContentExtractor (yosoi/core/extraction/extractor.py),              *)
(*   - SelectorStorage  (yosoi/storage.py) and LLMTracker (tracker.py),    *)
(*   - SelectorDiscovery.discover_selectors (yosoi/discovery.py),          *)
(*   - Pipeline.process_url / process_urls (yosoi/core/pipeline.py).       *)
(*                                                                         *)
(* HTML is represented by the sequence of element nodes that BeautifulSoup *)
(* hands to soup.select; a CSS selector by the tag/class pair it tests.    *)
(* A Python dict is an insertion-ordered sequence of <<key, value>> pairs. *)
(***************************************************************************)
EXTENDS Integers, Sequences, FiniteSets, TLC

VARIABLES
    \* ---- Pipeline.process_urls / process_url ----
    urls,        \* the batch handed to process_urls
    args,        \* per-run flags: force, skip_verification, fetcher_ok, max_fetch_retries, max_discovery_retries
    idx,         \* 1-based position of the for loop of process_urls
    pc,          \* position inside process_url for urls[idx]
    frame,       \* locals of the running process_url call
    results,     \* results dict of process_urls: successful / failed
    files,       \* SelectorStorage: selector file per domain key (NoFile when absent)
    content,     \* SelectorStorage: URLs whose extracted content file was written
    tracking,    \* LLMTracker file: domain -> llm_calls, url_count
    hist,        \* history of the running call: what was invoked for this URL
    outcomes,    \* history: per processed URL, what process_url returned or raised
    \* ---- SelectorVerifier.verify applied to one input ----
    vHtml,       \* html argument of verify
    vSelectors,  \* selectors argument of verify
    vResults,    \* the results dict verify fills field by field
    vResult,     \* the VerificationResult verify returned
    vPc,         \* "loop" in the for loop, "done" after the return, "raised" after an exception
    vExtracted,  \* what extract_content_with_html returned for the verified selectors
    \* ---- SmartFetcher.fetch applied to one URL ----
    fResponse,   \* what the HTTP GET of SimpleFetcher brings
    fRendered,   \* what the browser of PlaywrightFetcher brings
    fPc,         \* "simple" before the first tier, "browser" before the second, "done" after fetch
    fCalls,      \* the tiers called so far, in order
    fSimple,     \* how simple_fetcher.fetch ended
    fBrowser,    \* how playwright_fetcher.fetch ended
    fSmart,      \* how SmartFetcher.fetch ended
    \* ---- the request delay of SimpleFetcher across the URLs of a batch ----
    rUrls,       \* the batch handed to process_urls
    rIdx,        \* 1-based position of the for loop of process_urls
    rNow,        \* time.time(), in units of half a second
    rFetcher,    \* the fetcher of the running process_url call: its last_request_time, or NoFetcher
    rFetches,    \* fetcher.fetch calls made by the running process_url call
    rLog         \* history: the requests sent, each with its domain and its time

vars == <<urls, args, idx, pc, frame, results, files, content, tracking,
          hist, outcomes, vHtml, vSelectors, vResults, vResult, vPc, vExtracted,
          fResponse, fRendered, fPc, fCalls, fSimple, fBrowser, fSmart,
          rUrls, rIdx, rNow, rFetcher, rFetches, rLog>>

pipeVars == <<urls, args, idx, pc, frame, results, files, content, tracking,
              hist, outcomes>>

verVars == <<vHtml, vSelectors, vResults, vResult, vPc, vExtracted>>

fetchVars == <<fResponse, fRendered, fPc, fCalls, fSimple, fBrowser, fSmart>>

rateVars == <<rUrls, rIdx, rNow, rFetcher, rFetches, rLog>>

-----------------------------------------------------------------------------
(* Bounds *)

\* longest batch handed to process_urls
MaxUrls == 2

\* largest max_fetch_retries / max_discovery_retries argument
MaxRetries == 2

\* most element nodes in an HTML document given to verify
MaxNodes == 2

-----------------------------------------------------------------------------
(* Python dicts as insertion-ordered sequences of <<key, value>> pairs *)

DictHas(d, k) == \E i \in 1..Len(d) : d[i][1] = k

DictGet(d, k) == d[CHOOSE i \in 1..Len(d) : d[i][1] = k][2]

\* d[k] = v
DictPut(d, k, v) ==
    IF DictHas(d, k)
    THEN [i \in 1..Len(d) |-> IF d[i][1] = k THEN <<k, v>> ELSE d[i]]
    ELSE Append(d, <<k, v>>)

-----------------------------------------------------------------------------
(* Selectors and HTML *)

\* a selector value as found in a field's dict
Css(tag, cls) == [kind |-> "css", tag |-> tag, cls |-> cls]
NA            == [kind |-> "NA", tag |-> "", cls |-> ""]        \* the string 'NA'
NoneSel       == [kind |-> "None", tag |-> "", cls |-> ""]      \* Python None
Absent        == [kind |-> "Absent", tag |-> "", cls |-> ""]    \* key missing from the dict
BadSel        == [kind |-> "invalid", tag |-> "", cls |-> ""]   \* soup.select raises on it

\* an element node
Node(tag, cls, text) == [tag |-> tag, cls |-> cls, text |-> text]

\* FieldSelectors / raw field dict
FieldData(p, f, t) == [primary |-> p, fallback |-> f, tertiary |-> t]

\* a string value of a dict (not itself a dict)
JStr(s) == [str |-> s]

\* a dict value of a dict whose keys are not tier names (the 'selectors' entry of a file)
JDict(items) == [items |-> items]

\* the value has no .get: field_data.get(...) raises AttributeError
HasNoGet(v) == "str" \in DOMAIN v

\* the value seen through .get('primary'), .get('fallback'), .get('tertiary')
AsFieldData(v) ==
    IF "primary" \in DOMAIN v THEN v ELSE FieldData(Absent, Absent, Absent)

\* does the node satisfy the compound selector tag.cls ("*" = unconstrained)
NodeMatches(n, sel) ==
    /\ (sel.tag = "*" \/ n.tag = sel.tag)
    /\ (sel.cls = "*" \/ n.cls = sel.cls)

\* soup.select(selector) for a syntactically valid selector
Select(soup, sel) == SelectSeq(soup, LAMBDA n : NodeMatches(n, sel))


-----------------------------------------------------------------------------
(* SelectorVerifier *)

\* the (level, selector) tuples in the order _verify_field builds them;
\* dict.get returns None for a missing key
TierTuplesSwapped(field_data) ==
    LET get(level) == IF field_data[level].kind = "Absent" THEN NoneSel ELSE field_data[level]
    IN  << <<"fallback", get("fallback")>>,
           <<"primary", get("primary")>>,
           <<"tertiary", get("tertiary")>> >>

TierTuples(field_data) ==
    LET get(level) == IF field_data[level].kind = "Absent" THEN NoneSel ELSE field_data[level]
    IN  << <<"primary", get("primary")>>,
           <<"fallback", get("fallback")>>,
           <<"tertiary", get("tertiary")>> >>

\* _test_selector with the element check dropped: any valid selector "works"
test_selector_no_match_check(soup, selector) ==
    IF selector.kind \in {"None", "NA"} THEN <<FALSE, "na_selector">>
    ELSE IF selector.kind = "invalid" THEN <<FALSE, "invalid_syntax">>
    ELSE <<TRUE, "found">>

\* _test_selector without the 'NA' test: the sentinel is evaluated as a selector
test_selector_evaluates_na(soup, selector) ==
    IF selector.kind = "None" THEN <<FALSE, "na_selector">>
    ELSE IF selector.kind = "invalid" THEN <<FALSE, "invalid_syntax">>
    ELSE IF selector.kind = "NA"
         THEN IF Select(soup, Css("na", "*")) # <<>> THEN <<TRUE, "found">>
              ELSE <<FALSE, "no_elements_found">>
    ELSE IF Select(soup, selector) # <<>> THEN <<TRUE, "found">>
    ELSE <<FALSE, "no_elements_found">>

\* _test_selector: <<success, reason>>
test_selector(soup, selector) ==
    IF selector.kind \in {"None", "NA"} THEN <<FALSE, "na_selector">>
    ELSE IF selector.kind = "invalid" THEN <<FALSE, "invalid_syntax">>
    ELSE IF Select(soup, selector) # <<>> THEN <<TRUE, "found">>
    ELSE <<FALSE, "no_elements_found">>

\* SelectorFailure(level, selector, reason): the model's selector field is a str,
\* so pydantic rejects None
SelectorFailureRaises(selector) == selector.kind = "None"

\* FieldVerificationResult; status "raised" stands for the exception that
\* leaves _verify_field instead of a result
FieldResult(name, status, level, selector, failed) ==
    [field_name |-> name, status |-> status, working_level |-> level,
     selector |-> selector, failed_selectors |-> failed]

\* the for loop of _verify_field from tuple i on
RECURSIVE verify_field_loop(_, _, _, _, _)
verify_field_loop(soup, field_name, tuples, i, failed_selectors) ==
    IF i > Len(tuples)
    THEN FieldResult(field_name, "failed", "none", NoneSel, failed_selectors)
    ELSE LET level    == tuples[i][1]
             selector == tuples[i][2]
             tested   == test_selector(soup, selector)
         IN  IF tested[1]
             THEN FieldResult(field_name, "verified", level, selector, failed_selectors)
             ELSE IF SelectorFailureRaises(selector)
             THEN FieldResult(field_name, "raised", "none", NoneSel, failed_selectors)
             ELSE verify_field_loop(soup, field_name, tuples, i + 1,
                      Append(failed_selectors,
                             [level |-> level, selector |-> selector, reason |-> tested[2]]))

\* _verify_field; a value that is neither FieldSelectors nor a dict has no .get
verify_field(soup, field_name, field_data) ==
    IF HasNoGet(field_data)
    THEN FieldResult(field_name, "raised", "none", NoneSel, <<>>)
    ELSE verify_field_loop(soup, field_name, TierTuples(AsFieldData(field_data)), 1, <<>>)

\* verify: the VerificationResult; raised is set when a field's verification
\* raised, and the exception leaves verify instead of a result
VerificationResult(selectors, per) ==
    [raised         |-> FALSE,
     total_fields   |-> Len(selectors),
     verified_count |-> Cardinality({i \in 1..Len(per) : per[i][2].status = "verified"}),
     results        |-> per]

VerifyRaised == [raised |-> TRUE, total_fields |-> 0, verified_count |-> 0, results |-> <<>>]

verify(html, selectors) ==
    LET soup == html
        per  == [i \in 1..Len(selectors) |->
                    <<selectors[i][1], verify_field(soup, selectors[i][1], selectors[i][2])>>]
    IN  IF \E i \in 1..Len(per) : per[i][2].status = "raised"
        THEN VerifyRaised
        ELSE VerificationResult(selectors, per)

\* VerificationResult.success demanding that every field verified
VerificationSuccessWhenAllVerified(result) == result.verified_count = result.total_fields

\* VerificationResult.success
VerificationSuccess(result) == result.verified_count >= 1

\* the dict comprehension of the verified fields (Pipeline._verify, verify_selectors_with_html)
VerifiedSubset(selectors, result) ==
    SelectSeq(selectors, LAMBDA kv : DictGet(result.results, kv[1]).status = "verified")

\* what a call hands back: a dict, None, or an exception
RetDict(d) == [ret |-> "dict", dict |-> d]
RetNone    == [ret |-> "None", dict |-> <<>>]
RetRaise   == [ret |-> "raise", dict |-> <<>>]

\* verify_selectors_with_html
verify_selectors_with_html(html, selectors) ==
    LET result == verify(html, selectors)
    IN  IF result.raised THEN RetRaise
        ELSE IF ~VerificationSuccess(result) THEN RetNone
        ELSE RetDict(VerifiedSubset(selectors, result))

-----------------------------------------------------------------------------
(* ContentExtractor *)

\* the fields the model carries of ContentExtractor.EXPECTED_FIELDS / ScrapingConfig
EXPECTED_FIELDS == <<"headline", "author">>

\* str.strip() on the text values that occur in the model's documents
Strip(text) ==
    CASE text = " Title " -> "Title"
      [] text = "  "      -> ""
      [] OTHER            -> text

\* elem.get_text(strip=True)
GetText(elem) == Strip(elem.text)

\* a selector value is truthy: neither None, a missing key, nor ''
Truthy(selector) == selector.kind \notin {"None", "Absent"}

\* soup.select as the extractor calls it: 'NA' is a type selector, matching
\* the <na> elements; an invalid selector raises and the caller's except
\* returns None
SelectOrEmpty(soup, selector) ==
    CASE selector.kind = "css" -> Select(soup, selector)
      [] selector.kind = "NA"  -> Select(soup, Css("na", "*"))
      [] OTHER                 -> <<>>

\* _extract_with_selector taking the last matching element instead of the first
extract_with_selector_last(soup, selector, field_name) ==
    LET elements == SelectOrEmpty(soup, selector)
    IN  IF elements = <<>> THEN "" ELSE GetText(elements[Len(elements)])

\* _extract_with_selector for the single-value fields: "" stands for None
extract_with_selector(soup, selector, field_name) ==
    LET elements == SelectOrEmpty(soup, selector)
    IN  IF elements = <<>> THEN "" ELSE GetText(elements[1])

\* the primary -> fallback -> tertiary cascade of extract_content_with_html
ExtractField(soup, field_selectors, field_name) ==
    LET fs == AsFieldData(field_selectors)
        c1 == IF Truthy(fs.primary)
              THEN extract_with_selector(soup, fs.primary, field_name) ELSE ""
        c2 == IF c1 = "" /\ Truthy(fs.fallback)
              THEN extract_with_selector(soup, fs.fallback, field_name) ELSE c1
        c3 == IF c2 = "" /\ Truthy(fs.tertiary)
              THEN extract_with_selector(soup, fs.tertiary, field_name) ELSE c2
    IN  c3

\* the for loop of extract_content_with_html over EXPECTED_FIELDS from field i on
RECURSIVE extract_loop(_, _, _, _)
extract_loop(soup, validated_selectors, i, extracted) ==
    IF i > Len(EXPECTED_FIELDS) THEN extracted
    ELSE LET field_name == EXPECTED_FIELDS[i]
         IN  IF ~DictHas(validated_selectors, field_name)
             THEN extract_loop(soup, validated_selectors, i + 1, extracted)
             ELSE LET c == ExtractField(soup, DictGet(validated_selectors, field_name), field_name)
                  IN  extract_loop(soup, validated_selectors, i + 1,
                          IF c # "" THEN DictPut(extracted, field_name, c) ELSE extracted)

\* extract_content_with_html: the extracted dict, or None when it is empty
extract_content_with_html(html, validated_selectors) ==
    LET extracted == extract_loop(html, validated_selectors, 1, <<>>)
    IN  IF extracted # <<>> THEN RetDict(extracted) ELSE RetNone

\* extract_content_with_html has not been called
NotExtracted == [ret |-> "not called", dict |-> <<>>]

-----------------------------------------------------------------------------
(* URLs and domains *)

\* a URL: its netloc as a sequence of string pieces, and its path
Url(netloc, path) == [netloc |-> netloc, path |-> path]

UrlPool ==
    { Url(<<"www.", "a.com">>, "/1"),
      Url(<<"b.com">>, "/2"),
      Url(<<"m.", "www.", "a.com">>, "/3") }

\* Pipeline._extract_domain: urlparse(url).netloc.replace('www.', '')
PipelineDomain(url) == SelectSeq(url.netloc, LAMBDA piece : piece # "www.")

\* the startswith('www.') strip of SelectorStorage._extract_domain and LLMTracker.extract_domain
StripWwwPrefix(netloc) ==
    IF netloc # <<>> /\ netloc[1] = "www." THEN Tail(netloc) ELSE netloc

\* SelectorStorage._extract_domain
StorageDomain(url) == StripWwwPrefix(url.netloc)

\* LLMTracker.extract_domain
TrackerDomain(url) == StripWwwPrefix(url.netloc)

\* piece.replace('.', '_').replace('/', '_')
SafePiece(piece) ==
    CASE piece = "www."  -> "www_"
      [] piece = "m."    -> "m_"
      [] piece = "a.com" -> "a_com"
      [] piece = "b.com" -> "b_com"
      [] OTHER           -> piece

\* SelectorStorage._get_selector_filepath
SelectorFilepath(domain) ==
    <<"selectors_">> \o [i \in 1..Len(domain) |-> SafePiece(domain[i])] \o <<".json">>

-----------------------------------------------------------------------------
(* SelectorStorage and LLMTracker *)

\* _format_selectors: field_data.get(tier, 'NA') for every dict-valued field
FormatTier(selector) == IF selector.kind = "Absent" THEN NA ELSE selector

format_selectors(selectors) ==
    LET dicts == SelectSeq(selectors, LAMBDA kv : ~HasNoGet(kv[2]))
    IN  [i \in 1..Len(dicts) |->
            LET fd == AsFieldData(dicts[i][2])
            IN  <<dicts[i][1], FieldData(FormatTier(fd.primary), FormatTier(fd.fallback),
                                         FormatTier(fd.tertiary))>>]

\* format_selectors_json: the document save_selectors_json writes
format_selectors_json(url, domain, selectors) ==
    << <<"url", JStr(url)>>,
       <<"domain", JStr(domain)>>,
       <<"discovered_at", JStr("now")>>,
       <<"selectors", JDict(selectors)>> >>

\* save_selectors: the selector files after the save
save_selectors(fs, url, selectors) ==
    LET domain   == StorageDomain(url)
        filepath == SelectorFilepath(domain)
    IN  DictPut(fs, filepath, format_selectors_json(url, domain, format_selectors(selectors)))

\* load_selectors: json.load of the whole file, or None when there is no file
load_selectors(fs, domain) ==
    LET filepath == SelectorFilepath(domain)
    IN  IF DictHas(fs, filepath) THEN RetDict(DictGet(fs, filepath)) ELSE RetNone

\* save_content
save_content(ct, url, extracted) == DictPut(ct, url, extracted)

\* record_url counting the URL only when the LLM was not used
record_url_counts_one_of_two(data, url, used_llm) ==
    LET domain == TrackerDomain(url)
        old    == IF DictHas(data, domain) THEN DictGet(data, domain)
                  ELSE [llm_calls |-> 0, url_count |-> 0]
    IN  DictPut(data, domain,
                [llm_calls |-> IF used_llm THEN old.llm_calls + 1 ELSE old.llm_calls,
                 url_count |-> IF used_llm THEN old.url_count ELSE old.url_count + 1])

\* record_url: the tracking data after the call
record_url(data, url, used_llm) ==
    LET domain == TrackerDomain(url)
        old    == IF DictHas(data, domain) THEN DictGet(data, domain)
                  ELSE [llm_calls |-> 0, url_count |-> 0]
    IN  DictPut(data, domain,
                [llm_calls |-> IF used_llm THEN old.llm_calls + 1 ELSE old.llm_calls,
                 url_count |-> old.url_count + 1])

\* get_stats
get_stats(data, domain) ==
    IF DictHas(data, domain) THEN DictGet(data, domain) ELSE [llm_calls |-> 0, url_count |-> 0]

-----------------------------------------------------------------------------
(* Fetch results, HTMLCleaner, ContentAnalyzer, SelectorDiscovery *)

\* the raw pages a fetch can bring back
PageArticle == << Node("script", "", "js"), Node("h1", "t", " Title "), Node("span", "a", "Jane") >>
PageNoise   == << Node("script", "", "js") >>
PageFeed    == << Node("rss", "", ""), Node("h1", "t", "Item") >>
PageShell   == << Node("noscript", "", "enable javascript"), Node("p", "", "loading") >>

PagePool == {PageArticle, PageNoise, PageFeed, PageShell}

\* ContentAnalyzer._detect_rss: a feed declaration at the head of the document
detect_rss(html) == html # <<>> /\ html[1].tag \in {"xml", "rss", "feed", "channel"}

\* ContentAnalyzer._detect_javascript_heavy: the <noscript> "enable javascript" warning
detect_javascript_heavy(html) ==
    \E i \in 1..Len(html) : html[i].tag = "noscript" /\ html[i].text = "enable javascript"

\* ContentAnalyzer.analyze
analyze(html) ==
    [is_rss      |-> detect_rss(html),
     requires_js |-> IF detect_rss(html) THEN FALSE ELSE detect_javascript_heavy(html)]

NoMetadata == [is_rss |-> FALSE, requires_js |-> FALSE]

\* FetchResult; html = NoHtml stands for None
NoHtml == << Node("None", "", "") >>

FetchResult(html, is_blocked, metadata) ==
    [html |-> html, is_blocked |-> is_blocked, metadata |-> metadata]

\* FetchResult.success
Success(result) == result.html # NoHtml /\ ~result.is_blocked

\* FetchResult.should_use_heuristics
should_use_heuristics(result) == result.metadata.is_rss \/ result.metadata.requires_js

\* what fetcher.fetch(url) does: returns a FetchResult or raises BotDetectionError
FetchReturns(result) == [raises |-> FALSE, result |-> result]
FetchRaisesBot       == [raises |-> TRUE, result |-> FetchResult(NoHtml, FALSE, NoMetadata)]

FetchOutcomes ==
    { FetchReturns(FetchResult(page, FALSE, analyze(page))) : page \in PagePool }
    \cup { FetchReturns(FetchResult(NoHtml, FALSE, NoMetadata)),   \* network error
           FetchReturns(FetchResult(NoHtml, TRUE, NoMetadata)),    \* response too short
           FetchRaisesBot }

\* HTMLCleaner.clean_html: script, style, noscript, iframe, header, nav, footer are dropped
NoiseTags == {"script", "style", "noscript", "iframe", "header", "nav", "footer"}

clean_html(html) == SelectSeq(html, LAMBDA n : n.tag \notin NoiseTags)

\* what the oracle (agent.run_sync) answers: a ScrapingConfig, or an error
ConfigGood ==
    << <<"headline", FieldData(Css("h1", "t"), Css("h1", "*"), NA)>>,
       <<"author", FieldData(Css("span", "a"), Css("*", "author"), NA)>> >>

ConfigNoneTiers ==
    << <<"headline", FieldData(Css("h1", "t"), NoneSel, NoneSel)>>,
       <<"author", FieldData(Css("span", "a"), NoneSel, NoneSel)>> >>

ConfigAllNA ==
    << <<"headline", FieldData(NA, NA, NA)>>,
       <<"author", FieldData(NA, NA, NA)>> >>

OracleError == << <<"error", JStr("AI Error")>> >>

OracleAnswers == {ConfigGood, ConfigNoneTiers, ConfigAllNA, OracleError}

\* _is_all_na
is_all_na(selectors) ==
    \A i \in 1..Len(selectors) :
        \A tier \in {"primary", "fallback", "tertiary"} : selectors[i][2][tier].kind = "NA"

\* what kind of answer the oracle gave: an error, a valid all-NA config, or selectors
AnswerKind(answer) ==
    IF answer = OracleError THEN "error"
    ELSE IF is_all_na(answer) THEN "all_na"
    ELSE "good"

\* discover_selectors handing a valid all-NA config back as its result
discover_selectors_accepts_all_na(answer) ==
    IF answer = OracleError THEN RetNone
    ELSE IF answer # <<>> THEN RetDict(answer)
    ELSE RetNone

\* discover_selectors: the selectors dict, or None (LLMGenerationError, or all-NA)
discover_selectors(answer) ==
    IF answer = OracleError THEN RetNone
    ELSE IF answer # <<>> /\ ~is_all_na(answer) THEN RetDict(answer)
    ELSE RetNone

\* a stop condition that never holds
stop_never(attempt_number, max_attempts) == FALSE

\* stop_after_attempt allowing two attempts more
stop_after_attempt_two_late(attempt_number, max_attempts) == attempt_number >= max_attempts + 2

\* tenacity stop_after_attempt(max_attempts)
stop_after_attempt_off_by_one(attempt_number, max_attempts) == attempt_number > max_attempts

stop_after_attempt(attempt_number, max_attempts) == attempt_number >= max_attempts

\* the attempts a Retrying object makes when every attempt fails: the first
\* attempt is made before the stop condition is looked at
Attempts(max_attempts) == IF max_attempts < 1 THEN 1 ELSE max_attempts

-----------------------------------------------------------------------------
(* Fetch tiers: SimpleFetcher, PlaywrightFetcher, SmartFetcher *)

\* the length below which SimpleFetcher and _check_for_bot_detection call a body too short
MinHtmlLen == 100

\* the characters of a body that _check_for_bot_detection looks at: html[:2000]
CheckedChars == 2000

\* a response body: its length in characters, the text it shows in its first
\* CheckedChars characters, and the text it shows after them
Body(len, text) == [len |-> len, text |-> text, tail |-> ""]

\* a body longer than CheckedChars characters
LongBody(text, tail) == [len |-> CheckedChars + 1, text |-> text, tail |-> tail]

\* html = None
NoBody == Body(0, "None")

BodyTexts == {"", "please verify you are human", "forbidden", "cf-captcha"}

Bodies ==
    { Body(len, text) : len \in {MinHtmlLen - 1, MinHtmlLen}, text \in BodyTexts }
    \cup { Body(0, "") }
    \cup { LongBody("", "cf-captcha"), LongBody("cf-captcha", "") }

\* FetchResult as a fetch tier builds it; status_code 0 stands for None, block_reason "" for None
FetchResultOf(html, status_code, is_blocked, block_reason) ==
    [html |-> html, status_code |-> status_code, is_blocked |-> is_blocked,
     block_reason |-> block_reason]

\* FetchResult.success
success(result) == result.html # NoBody /\ ~result.is_blocked

\* how a fetch call ends: it returns a FetchResult or raises an exception
Returned(result) == [raises |-> "none", result |-> result]
Raised(exc)      == [raises |-> exc, result |-> FetchResultOf(NoBody, 0, FALSE, "")]

\* the strict block-page markers checked on a 200 response
StrictIndicator(text) == text \in {"please verify you are human", "cf-captcha"}

\* the broader markers checked on other 4xx/5xx responses ('captcha' occurs in 'cf-captcha')
BlockIndicator(text) == text \in {"forbidden", "cf-captcha"}

\* _check_for_bot_detection looking for the markers in the whole body
check_for_bot_detection_whole_body(html, status_code) ==
    IF html.len < MinHtmlLen THEN TRUE
    ELSE IF status_code \in {403, 429, 503} THEN TRUE
    ELSE IF status_code = 200 THEN StrictIndicator(html.text) \/ StrictIndicator(html.tail)
    ELSE IF status_code >= 400 THEN BlockIndicator(html.text) \/ BlockIndicator(html.tail)
    ELSE FALSE

\* HTMLFetcher._check_for_bot_detection: is_blocked
check_for_bot_detection(html, status_code) ==
    IF html.len < MinHtmlLen THEN TRUE
    ELSE IF status_code \in {403, 429, 503} THEN TRUE
    ELSE IF status_code = 200 THEN StrictIndicator(html.text)
    ELSE IF status_code >= 400 THEN BlockIndicator(html.text)
    ELSE FALSE

\* what requests.get brings: a response, or an exception (timeout, connection error)
HttpResponse(status_code, html) == [kind |-> "response", status_code |-> status_code, html |-> html]
HttpError == [kind |-> "error", status_code |-> 0, html |-> NoBody]

Responses ==
    { HttpResponse(sc, b) : sc \in {200, 403, 404, 429, 503}, b \in Bodies } \cup {HttpError}

\* SimpleFetcher.fetch
simple_fetch(response) ==
    IF response.kind = "error"
    THEN Returned(FetchResultOf(NoBody, 0, FALSE, "error"))
    ELSE IF response.html.len < MinHtmlLen
    THEN Returned(FetchResultOf(NoBody, response.status_code, TRUE, "Response too short or empty"))
    ELSE IF check_for_bot_detection(response.html, response.status_code)
    THEN Raised("BotDetectionError")
    ELSE Returned(FetchResultOf(response.html, response.status_code, FALSE, ""))

\* what the browser brings: the rendered page (status_code 0 when page.goto
\* returned no response), an exception while rendering, or no browser installed
NotInstalled == [kind |-> "not_installed", status_code |-> 0, html |-> NoBody]

Renderings ==
    { HttpResponse(sc, b) : sc \in {0, 200, 403, 404}, b \in Bodies }
    \cup {HttpError, NotInstalled}

\* PlaywrightFetcher.fetch
playwright_fetch(rendered) ==
    IF rendered.kind = "not_installed" THEN Raised("ImportError")
    ELSE IF rendered.kind = "error"
    THEN Returned(FetchResultOf(NoBody, 0, FALSE, "error"))
    ELSE IF check_for_bot_detection(rendered.html,
                IF rendered.status_code = 0 THEN 200 ELSE rendered.status_code)
    THEN Raised("BotDetectionError")
    ELSE Returned(FetchResultOf(rendered.html, rendered.status_code, FALSE, ""))

\* SmartFetcher.fetch, first tier, escalating only when the result is not successful
escalates_on_failure_only(out) == out.raises = "none" /\ ~success(out.result)

\* SmartFetcher.fetch, first tier, escalating only when the first tier raised
escalates_on_bot_detection_only(out) == out.raises = "BotDetectionError"

\* SmartFetcher.fetch, first tier: the second tier is tried unless the first
\* returned a successful result
escalates(out) == out.raises = "BotDetectionError" \/ ~success(out.result)

\* SmartFetcher.fetch, second tier, with every exception left to propagate
second_tier_propagates(out) == out

\* SmartFetcher.fetch, second tier: BotDetectionError is re-raised, any other
\* exception becomes a FetchResult
second_tier(out) ==
    IF out.raises \in {"none", "BotDetectionError"} THEN out
    ELSE Returned(FetchResultOf(NoBody, 0, FALSE, "All methods failed"))

-----------------------------------------------------------------------------
(* SimpleFetcher: the delay between requests; time in units of half a second *)

\* SimpleFetcher.__init__ defaults: min_delay = 0.5 s, max_delay = 2.0 s
min_delay == 1
max_delay == 4

\* most fetcher.fetch calls of one process_url call
MaxFetches == 2

\* how far time.time() moves on by other work between two steps
MaxTicks == 3

\* time.time() when process_urls is called: far beyond max_delay
StartTime == 3 * max_delay

\* process_url has no fetcher outside a call
NoFetcher == [last_request_time |-> -1]

\* SimpleFetcher(): self.last_request_time = 0.0
NewSimpleFetcher == [last_request_time |-> 0]

\* _apply_request_delay: the time at which it returns, which becomes
\* last_request_time; delay_needed is random.uniform(min_delay, max_delay)
apply_request_delay(last_request_time, now, delay_needed) ==
    LET elapsed == now - last_request_time
    IN  IF min_delay > 0 /\ elapsed < delay_needed
        THEN now + (delay_needed - elapsed)
        ELSE now

-----------------------------------------------------------------------------
(* Pipeline.process_urls / process_url *)

IdleFrame ==
    [url |-> Url(<<>>, ""), fetch_attempt |-> 0, disc_attempt |-> 0,
     cleaned_html |-> <<>>, selectors |-> <<>>, used_llm |-> FALSE]

\* nothing has been invoked yet for the URL
FreshHist ==
    [fetch_calls  |-> 0,        \* calls of fetcher.fetch
     step_fetches |-> 0,        \* those made by the retry loop of _fetch
     oracle_calls |-> 0,        \* calls of discover_selectors (one oracle request each)
     ops          |-> {},       \* the steps that ran after the last fetch
     last_fetch   |-> "none",   \* how the last fetcher.fetch ended: ok, fail, bot
     bot_at       |-> 0,        \* fetch_calls when _fetch first saw BotDetectionError
     heuristics   |-> FALSE,    \* the fetched content was classified feed or script-heavy
     exhausted    |-> "none",   \* the retry loop that ran out: fetch, discover
     pre          |-> [files |-> <<>>, content |-> <<>>, tracking |-> <<>>],  \* storage when the call began
     via          |-> "none",   \* the path that returned: cache, discovery
     reverified   |-> FALSE,    \* cached selectors were verified against fresh HTML
     reverify_failed |-> 0,     \* entries of the cached map that re-verification did not verify
     verified     |-> "none",   \* how _verify ended: skipped, passed, failed, raised
     verify_html  |-> <<>>,     \* the cleaned HTML handed to _verify
     saved        |-> <<>>,     \* the selector map handed to save_selectors
     answer_kinds |-> {},       \* the kinds of answer the oracle calls gave: good, all_na, error
     last_answer  |-> "none",   \* the kind of answer of the last oracle call
     fetch_kinds  |-> {}]       \* how the fetcher.fetch calls ended: ok, fail, bot

\* the history of a call that begins with the storage as given
BeginHist(fs, ct, data) ==
    [FreshHist EXCEPT !.pre = [files |-> fs, content |-> ct, tracking |-> data]]

\* how a fetcher.fetch call ended
FetchKind(out) ==
    IF out.raises THEN "bot" ELSE IF Success(out.result) THEN "ok" ELSE "fail"

\* the history after one more fetcher.fetch call
AfterFetch(h, out) ==
    [h EXCEPT !.fetch_calls = @ + 1, !.last_fetch = FetchKind(out), !.ops = {},
              !.fetch_kinds = @ \cup {FetchKind(out)}]

\* the try/except around process_url in process_urls with the append in the
\* except clause left out
AppendResultNoExcept(res, url, ret) ==
    IF ret = "True" THEN [res EXCEPT !.successful = Append(@, url)]
    ELSE IF ret = "False" THEN [res EXCEPT !.failed = Append(@, url)]
    ELSE res

\* the try/except around process_url in process_urls: ret is "True", "False" or "raise"
AppendResult(res, url, ret) ==
    IF ret = "True" THEN [res EXCEPT !.successful = Append(@, url)]
    ELSE [res EXCEPT !.failed = Append(@, url)]

\* what ended the URL, for a call that did not succeed: "hard" when the last
\* fetcher.fetch raised BotDetectionError and nothing ran after it, "soft" when
\* the fetch or discovery retries ran out on ordinary failures, "other" otherwise
OutcomeKind(ret, h) ==
    IF ret = "True" THEN "success"
    ELSE IF h.last_fetch = "bot" THEN "hard"
    ELSE IF h.exhausted # "none" THEN "soft"
    ELSE "other"

\* process_url returns (or raises) and the loop of process_urls moves on
Return(ret, h) ==
    /\ results' = AppendResult(results, urls[idx], ret)
    /\ outcomes' = Append(outcomes, [ret |-> ret, kind |-> OutcomeKind(ret, h)])
    /\ hist' = h
    /\ idx' = idx + 1
    /\ pc' = "idle"
    /\ frame' = IdleFrame

\* process_url is entered for urls[idx]: domain, _create_fetcher
BeginUrl ==
    /\ pc = "idle"
    /\ idx <= Len(urls)
    /\ IF ~args.fetcher_ok
       THEN /\ Return("False", BeginHist(files, content, tracking))
            /\ UNCHANGED <<files, content, tracking>>
       ELSE /\ frame' = [IdleFrame EXCEPT !.url = urls[idx], !.fetch_attempt = 1, !.disc_attempt = 1]
            /\ hist' = BeginHist(files, content, tracking)
            /\ pc' = IF ~args.force THEN "cached" ELSE "fetch"
            /\ UNCHANGED <<idx, results, outcomes, files, content, tracking>>
    /\ UNCHANGED <<urls, args, verVars, fetchVars, rateVars>>

\* _track_cached_success
track_cached_success(data, url) == record_url(data, url, FALSE)

\* _extract_with_cached_selectors: every path tracks the URL, a BotDetectionError included
ExtractWithCachedSelectors(existing, out) ==
    LET h1        == [AfterFetch(hist, out) EXCEPT !.via = "cache"]
        cleaned   == clean_html(out.result.html)
        extracted == extract_content_with_html(cleaned, existing)
        usable    == ~out.raises /\ Success(out.result)
    IN  /\ content' = IF usable /\ extracted.ret = "dict"
                      THEN save_content(content, frame.url, extracted.dict) ELSE content
        /\ tracking' = track_cached_success(tracking, frame.url)
        /\ Return("True",
                  [h1 EXCEPT !.ops = IF usable
                                     THEN IF extracted.ret = "dict"
                                          THEN {"clean", "extract", "save_content", "track"}
                                          ELSE {"clean", "extract", "track"}
                                     ELSE {"track"}])
        /\ UNCHANGED files

\* _verify_and_extract_cached
VerifyAndExtractCached(existing, out) ==
    LET h1        == [AfterFetch(hist, out) EXCEPT !.via = "cache"]
        cleaned   == clean_html(out.result.html)
        verified  == verify_selectors_with_html(cleaned, existing)
        extracted == extract_content_with_html(cleaned, verified.dict)
    IN  IF out.raises
        THEN \* except BotDetectionError: raise
             /\ Return("raise", h1)
             /\ UNCHANGED <<files, content, tracking>>
        ELSE IF ~Success(out.result)
        THEN \* could not fetch HTML: the cached selectors are used as they are
             /\ tracking' = track_cached_success(tracking, frame.url)
             /\ Return("True", [h1 EXCEPT !.ops = {"track"}])
             /\ UNCHANGED <<files, content>>
        ELSE IF verified.ret = "raise"
        THEN \* except Exception: verification error, skipping extraction
             /\ tracking' = track_cached_success(tracking, frame.url)
             /\ Return("True", [h1 EXCEPT !.ops = {"clean", "verify", "track"},
                                          !.reverify_failed = Len(existing)])
             /\ UNCHANGED <<files, content>>
        ELSE IF verified.ret = "dict"
        THEN /\ content' = IF extracted.ret = "dict"
                           THEN save_content(content, frame.url, extracted.dict) ELSE content
             /\ tracking' = track_cached_success(tracking, frame.url)
             /\ Return("True",
                       [h1 EXCEPT !.reverified = TRUE,
                                  !.reverify_failed = Len(existing) - Len(verified.dict),
                                  !.ops = IF extracted.ret = "dict"
                                          THEN {"clean", "verify", "extract", "save_content", "track"}
                                          ELSE {"clean", "verify", "extract", "track"}])
             /\ UNCHANGED files
        ELSE \* cached selectors failed verification: fall through to re-discovery
             /\ hist' = [h1 EXCEPT !.via = "none", !.ops = {"clean", "verify"},
                                   !.reverify_failed = Len(existing)]
             /\ pc' = "fetch"
             /\ UNCHANGED <<frame, idx, results, outcomes, files, content, tracking>>

\* _cached_selectors, with the skip_verification shortcut returning before any fetch
CachedSelectorsNoFetch ==
    /\ pc = "cached"
    /\ LET existing == load_selectors(files, PipelineDomain(frame.url))
       IN  IF existing.ret = "None"
           THEN /\ pc' = "fetch"
                /\ UNCHANGED <<frame, hist, idx, results, outcomes, files, content, tracking>>
           ELSE IF args.skip_verification
           THEN /\ tracking' = track_cached_success(tracking, frame.url)
                /\ Return("True", [hist EXCEPT !.via = "cache", !.ops = {"track"}])
                /\ UNCHANGED <<files, content>>
           ELSE \E out \in FetchOutcomes : VerifyAndExtractCached(existing.dict, out)
    /\ UNCHANGED <<urls, args, verVars, fetchVars, rateVars>>

\* _cached_selectors (reached only when force is not set)
CachedSelectors ==
    /\ pc = "cached"
    /\ LET existing == load_selectors(files, PipelineDomain(frame.url))
       IN  IF existing.ret = "None"
           THEN /\ pc' = "fetch"
                /\ UNCHANGED <<frame, hist, idx, results, outcomes, files, content, tracking>>
           ELSE IF args.skip_verification
           THEN \E out \in FetchOutcomes : ExtractWithCachedSelectors(existing.dict, out)
           ELSE \E out \in FetchOutcomes : VerifyAndExtractCached(existing.dict, out)
    /\ UNCHANGED <<urls, args, verVars, fetchVars, rateVars>>

\* _fetch going on to discovery, with no HTML, once its attempts are used up
FetchAttemptGoesOnAfterFailure ==
    /\ pc = "fetch"
    /\ \E out \in FetchOutcomes :
          LET h1 == [AfterFetch(hist, out) EXCEPT
                        !.step_fetches = @ + 1,
                        !.via = "discovery",
                        !.bot_at = IF out.raises /\ @ = 0 THEN hist.fetch_calls + 1 ELSE @,
                        !.heuristics = ~out.raises /\ Success(out.result)
                                       /\ should_use_heuristics(out.result)]
              cleaned_html == clean_html(out.result.html)
          IN  IF ~out.raises /\ Success(out.result)
              THEN IF cleaned_html = <<>>
                   THEN \* HTML cleaning produced empty result
                        /\ Return("False", [h1 EXCEPT !.ops = {"clean"}])
                        /\ UNCHANGED <<files, content, tracking>>
                   ELSE /\ frame' = [frame EXCEPT !.cleaned_html = cleaned_html]
                        /\ hist' = [h1 EXCEPT !.ops = {"clean"}]
                        /\ pc' = "discover"
                        /\ UNCHANGED <<idx, results, outcomes, files, content, tracking>>
              ELSE IF stop_after_attempt(frame.fetch_attempt, args.max_fetch_retries)
                   THEN \* reraise, caught by except Exception: return None
                        /\ frame' = [frame EXCEPT !.cleaned_html = <<>>]
                        /\ hist' = [h1 EXCEPT !.exhausted = "fetch"]
                        /\ pc' = "discover"
                        /\ UNCHANGED <<idx, results, outcomes, files, content, tracking>>
                   ELSE /\ frame' = [frame EXCEPT !.fetch_attempt = @ + 1]
                        /\ hist' = h1
                        /\ UNCHANGED <<pc, idx, results, outcomes, files, content, tracking>>
    /\ UNCHANGED <<urls, args, verVars, fetchVars, rateVars>>

\* one attempt of the retry loop of _fetch, and _clean after a successful one
FetchAttempt ==
    /\ pc = "fetch"
    /\ \E out \in FetchOutcomes :
          LET h1 == [AfterFetch(hist, out) EXCEPT
                        !.step_fetches = @ + 1,
                        !.via = "discovery",
                        !.bot_at = IF out.raises /\ @ = 0 THEN hist.fetch_calls + 1 ELSE @,
                        !.heuristics = ~out.raises /\ Success(out.result)
                                       /\ should_use_heuristics(out.result)]
              cleaned_html == clean_html(out.result.html)
          IN  IF ~out.raises /\ Success(out.result)
              THEN IF cleaned_html = <<>>
                   THEN \* HTML cleaning produced empty result
                        /\ Return("False", [h1 EXCEPT !.ops = {"clean"}])
                        /\ UNCHANGED <<files, content, tracking>>
                   ELSE /\ frame' = [frame EXCEPT !.cleaned_html = cleaned_html]
                        /\ hist' = [h1 EXCEPT !.ops = {"clean"}]
                        /\ pc' = "discover"
                        /\ UNCHANGED <<idx, results, outcomes, files, content, tracking>>
              ELSE IF stop_after_attempt(frame.fetch_attempt, args.max_fetch_retries)
                   THEN \* reraise, caught by except Exception: return None
                        /\ Return("False", [h1 EXCEPT !.exhausted = "fetch"])
                        /\ UNCHANGED <<files, content, tracking>>
                   ELSE /\ frame' = [frame EXCEPT !.fetch_attempt = @ + 1]
                        /\ hist' = h1
                        /\ UNCHANGED <<pc, idx, results, outcomes, files, content, tracking>>
    /\ UNCHANGED <<urls, args, verVars, fetchVars, rateVars>>

\* one attempt of the retry loop of _discover
DiscoverAttempt ==
    /\ pc = "discover"
    /\ \E answer \in OracleAnswers :
          LET selectors == discover_selectors(answer)
              h1 == [hist EXCEPT !.oracle_calls = @ + 1, !.ops = @ \cup {"discover"},
                                 !.answer_kinds = @ \cup {AnswerKind(answer)},
                                 !.last_answer = AnswerKind(answer)]
          IN  IF selectors.ret = "dict"
              THEN /\ frame' = [frame EXCEPT !.selectors = selectors.dict, !.used_llm = TRUE]
                   /\ hist' = h1
                   /\ pc' = "verify"
                   /\ UNCHANGED <<idx, results, outcomes, files, content, tracking>>
              ELSE IF stop_after_attempt(frame.disc_attempt, args.max_discovery_retries)
                   THEN \* return None, False
                        /\ Return("False", [h1 EXCEPT !.exhausted = "discover"])
                        /\ UNCHANGED <<files, content, tracking>>
                   ELSE /\ frame' = [frame EXCEPT !.disc_attempt = @ + 1]
                        /\ hist' = h1
                        /\ UNCHANGED <<pc, idx, results, outcomes, files, content, tracking>>
    /\ UNCHANGED <<urls, args, verVars, fetchVars, rateVars>>

\* Pipeline._verify returning the whole map once one field is verified
pipeline_verify_keeps_all(html, selectors, skip_verification) ==
    IF skip_verification THEN RetDict(selectors)
    ELSE LET result == verify(html, selectors)
         IN  IF result.raised THEN RetRaise
             ELSE IF ~VerificationSuccess(result) THEN RetNone
             ELSE RetDict(selectors)

\* Pipeline._verify
pipeline_verify(html, selectors, skip_verification) ==
    IF skip_verification THEN RetDict(selectors)
    ELSE LET result == verify(html, selectors)
         IN  IF result.raised THEN RetRaise
             ELSE IF ~VerificationSuccess(result) THEN RetNone
             ELSE RetDict(VerifiedSubset(selectors, result))

\* _verify, _extract and _save_and_track
VerifyExtractSave ==
    /\ pc = "verify"
    /\ LET verified  == pipeline_verify(frame.cleaned_html, frame.selectors, args.skip_verification)
           extracted == extract_content_with_html(frame.cleaned_html, verified.dict)
           h1        == [hist EXCEPT !.ops = @ \cup {"verify"},
                                     !.verify_html = frame.cleaned_html,
                                     !.verified = IF args.skip_verification THEN "skipped"
                                                  ELSE IF verified.ret = "raise" THEN "raised"
                                                  ELSE IF verified.ret = "None" THEN "failed"
                                                  ELSE "passed"]
       IN  IF verified.ret = "raise"
           THEN /\ Return("raise", h1)
                /\ UNCHANGED <<files, content, tracking>>
           ELSE IF verified.ret = "None"
           THEN /\ Return("False", h1)
                /\ UNCHANGED <<files, content, tracking>>
           ELSE /\ files' = save_selectors(files, frame.url, verified.dict)
                /\ content' = IF extracted.ret = "dict"
                              THEN save_content(content, frame.url, extracted.dict) ELSE content
                /\ tracking' = record_url(tracking, frame.url, frame.used_llm)
                /\ Return("True",
                          [h1 EXCEPT !.saved = verified.dict,
                                     !.ops = @ \cup {"extract", "save_selectors", "track"}
                                           \cup (IF extracted.ret = "dict" THEN {"save_content"} ELSE {})])
    /\ UNCHANGED <<urls, args, verVars, fetchVars, rateVars>>

-----------------------------------------------------------------------------
(* The pipeline as a state machine *)

RECURSIVE SeqsUpTo(_, _)
SeqsUpTo(S, n) ==
    IF n = 0 THEN { <<>> }
    ELSE LET shorter == SeqsUpTo(S, n - 1)
         IN  shorter \cup { Append(q, x) : q \in shorter, x \in S }

Batches == SeqsUpTo(UrlPool, MaxUrls)

Arguments ==
    [force : BOOLEAN, skip_verification : BOOLEAN, fetcher_ok : BOOLEAN,
     max_fetch_retries : 0..MaxRetries, max_discovery_retries : 0..MaxRetries]

\* the verifier's variables while the pipeline runs
VerifierIdle ==
    /\ vHtml = <<>>
    /\ vSelectors = <<>>
    /\ vResults = <<>>
    /\ vResult = VerifyRaised
    /\ vPc = "off"
    /\ vExtracted = NotExtracted

\* the fetch tiers' variables while they are not examined on their own
FetcherIdle ==
    /\ fResponse = HttpError
    /\ fRendered = HttpError
    /\ fPc = "off"
    /\ fCalls = <<>>
    /\ fSimple = Raised("none yet")
    /\ fBrowser = Raised("none yet")
    /\ fSmart = Raised("none yet")

\* the request clock's variables while it is not examined
RateIdle ==
    /\ rUrls = <<>>
    /\ rIdx = 1
    /\ rNow = 0
    /\ rFetcher = NoFetcher
    /\ rFetches = 0
    /\ rLog = <<>>

\* a new Pipeline with empty storage, and a call of process_urls
Init ==
    /\ urls \in Batches
    /\ args \in Arguments
    /\ idx = 1
    /\ pc = "idle"
    /\ frame = IdleFrame
    /\ results = [successful |-> <<>>, failed |-> <<>>]
    /\ files = <<>>
    /\ content = <<>>
    /\ tracking = <<>>
    /\ hist = FreshHist
    /\ outcomes = <<>>
    /\ VerifierIdle
    /\ FetcherIdle
    /\ RateIdle

Next ==
    \/ BeginUrl
    \/ CachedSelectors
    \/ FetchAttempt
    \/ DiscoverAttempt
    \/ VerifyExtractSave

Spec == Init /\ [][Next]_vars

\* process_urls has returned
Done == pc = "idle" /\ idx = Len(urls) + 1

-----------------------------------------------------------------------------
(* SelectorVerifier.verify on its own: one input, one field per step *)

\* element nodes of the documents handed to verify
NodePool ==
    { Node("h1", "t", "x"), Node("h1", "", "x"), Node("span", "a", "y"), Node("h1", "t", "  "),
      Node("na", "", "z") }

Documents == SeqsUpTo(NodePool, MaxNodes)

\* the field dicts handed to verify: every tier can hold a selector that
\* matches, one that does not, 'NA', an invalid one, None, or be missing
FieldDatas ==
    { FieldData(p, f, t) :
        p \in {Css("h1", "t"), Css("span", "*"), NA, BadSel},
        f \in {Css("h1", "*"), NA, NoneSel, Absent},
        t \in {Css("*", "a"), NA, NoneSel} }

\* values of a second field, a non-dict value among them
SecondFieldValues ==
    { FieldData(Css("span", "a"), Css("h1", "*"), NA),
      FieldData(Css("*", "a"), NoneSel, NoneSel),
      FieldData(NA, NA, NA),
      JStr("http://a.com/1") }

SelectorMaps ==
    { <<>> }
    \cup { << <<"headline", fd>> >> : fd \in FieldDatas }
    \cup { << <<"headline", fd>>, <<"author", v>> >> : fd \in FieldDatas, v \in SecondFieldValues }

\* the pipeline's variables while verify is examined on its own
PipelineIdle ==
    /\ urls = <<>>
    /\ args = [force |-> FALSE, skip_verification |-> FALSE, fetcher_ok |-> TRUE,
               max_fetch_retries |-> 1, max_discovery_retries |-> 1]
    /\ idx = 1
    /\ pc = "off"
    /\ frame = IdleFrame
    /\ results = [successful |-> <<>>, failed |-> <<>>]
    /\ files = <<>>
    /\ content = <<>>
    /\ tracking = <<>>
    /\ hist = FreshHist
    /\ outcomes = <<>>

\* verify(html, selectors) is entered: soup parsed, results = {}
InitVerify ==
    /\ PipelineIdle
    /\ FetcherIdle
    /\ RateIdle
    /\ vHtml \in Documents
    /\ vSelectors \in SelectorMaps
    /\ vResults = <<>>
    /\ vResult = VerifyRaised
    /\ vPc = "loop"
    /\ vExtracted = NotExtracted

\* one iteration of the for loop of verify: results[field_name] = _verify_field(...)
VerifyField ==
    /\ vPc = "loop"
    /\ Len(vResults) < Len(vSelectors)
    /\ LET field_name == vSelectors[Len(vResults) + 1][1]
           field_data == vSelectors[Len(vResults) + 1][2]
           result     == verify_field(vHtml, field_name, field_data)
       IN  IF result.status = "raised"
           THEN /\ vPc' = "raised"
                /\ UNCHANGED vResults
           ELSE /\ vResults' = DictPut(vResults, field_name, result)
                /\ UNCHANGED vPc
    /\ UNCHANGED <<vHtml, vSelectors, vResult, vExtracted, pipeVars, fetchVars, rateVars>>

\* the loop is over: verify returns the VerificationResult
VerifyReturn ==
    /\ vPc = "loop"
    /\ Len(vResults) = Len(vSelectors)
    /\ vResult' = verify(vHtml, vSelectors)
    /\ vPc' = "done"
    /\ UNCHANGED <<vHtml, vSelectors, vResults, vExtracted, pipeVars, fetchVars, rateVars>>

\* Pipeline._verify keeps the verified fields of a successful result, and
\* Pipeline._extract hands them to extract_content_with_html with the same html
Extract ==
    /\ vPc = "done"
    /\ vExtracted = NotExtracted
    /\ VerificationSuccess(vResult)
    /\ vExtracted' = extract_content_with_html(vHtml, VerifiedSubset(vSelectors, vResult))
    /\ UNCHANGED <<vHtml, vSelectors, vResults, vResult, vPc, pipeVars, fetchVars, rateVars>>

NextVerify ==
    \/ VerifyField
    \/ VerifyReturn
    \/ Extract

SpecVerify == InitVerify /\ [][NextVerify]_vars

-----------------------------------------------------------------------------
(* SmartFetcher.fetch on its own: one URL, one tier per step *)

\* SmartFetcher.fetch(url) is entered
InitFetch ==
    /\ PipelineIdle
    /\ VerifierIdle
    /\ RateIdle
    /\ fResponse \in Responses
    /\ fRendered \in Renderings
    /\ fPc = "simple"
    /\ fCalls = <<>>
    /\ fSimple = Raised("none yet")
    /\ fBrowser = Raised("none yet")
    /\ fSmart = Raised("none yet")

\* attempt 1: simple_fetcher.fetch(url); a successful result is returned
SimpleTier ==
    /\ fPc = "simple"
    /\ LET out == simple_fetch(fResponse)
       IN  /\ fSimple' = out
           /\ fCalls' = Append(fCalls, "simple")
           /\ IF escalates(out)
              THEN fPc' = "browser" /\ UNCHANGED fSmart
              ELSE fPc' = "done" /\ fSmart' = out
    /\ UNCHANGED <<fResponse, fRendered, fBrowser, pipeVars, verVars, rateVars>>

\* attempt 2: playwright_fetcher.fetch(url)
BrowserTier ==
    /\ fPc = "browser"
    /\ LET out == playwright_fetch(fRendered)
       IN  /\ fBrowser' = out
           /\ fCalls' = Append(fCalls, "browser")
           /\ fSmart' = second_tier(out)
           /\ fPc' = "done"
    /\ UNCHANGED <<fResponse, fRendered, fSimple, pipeVars, verVars, rateVars>>

NextFetch ==
    \/ SimpleTier
    \/ BrowserTier

SpecFetch == InitFetch /\ [][NextFetch]_vars

-----------------------------------------------------------------------------
(* The request delay across the URLs of a batch: process_urls calls
   process_url for each URL, and each call creates its own fetcher *)

\* process_urls(urls) is entered
InitRate ==
    /\ PipelineIdle
    /\ VerifierIdle
    /\ FetcherIdle
    /\ rUrls \in Batches \ { <<>> }
    /\ rIdx = 1
    /\ rNow = StartTime
    /\ rFetcher = NoFetcher
    /\ rFetches = 0
    /\ rLog = <<>>

\* process_url(rUrls[rIdx]) is entered: fetcher = self._create_fetcher(fetcher_type)
RateCreateFetcher ==
    /\ rIdx <= Len(rUrls)
    /\ rFetcher = NoFetcher
    /\ rFetcher' = NewSimpleFetcher
    /\ rFetches' = 0
    /\ UNCHANGED <<rUrls, rIdx, rNow, rLog, pipeVars, verVars, fetchVars>>

\* fetcher.fetch(url): _apply_request_delay sleeps as needed, then the request is sent
RateFetch ==
    /\ rFetcher # NoFetcher
    /\ rFetches < MaxFetches
    /\ \E delay_needed \in min_delay..max_delay :
          LET sent == apply_request_delay(rFetcher.last_request_time, rNow, delay_needed)
          IN  /\ rNow' = sent
              /\ rFetcher' = [last_request_time |-> sent]
              /\ rLog' = Append(rLog, [domain |-> PipelineDomain(rUrls[rIdx]), time |-> sent])
    /\ rFetches' = rFetches + 1
    /\ UNCHANGED <<rUrls, rIdx, pipeVars, verVars, fetchVars>>

\* time passes: the response arrives, the retry backs off, the page is processed
RateTick ==
    /\ rIdx <= Len(rUrls)
    /\ rNow < StartTime + MaxTicks
    /\ rNow' = rNow + 1
    /\ UNCHANGED <<rUrls, rIdx, rFetcher, rFetches, rLog, pipeVars, verVars, fetchVars>>

\* process_url returns, after at least one fetch (the cache check or the
\* Fetch step), and the for loop of process_urls moves on
RateReturn ==
    /\ rFetcher # NoFetcher
    /\ rFetches >= 1
    /\ rFetcher' = NoFetcher
    /\ rIdx' = rIdx + 1
    /\ UNCHANGED <<rUrls, rNow, rFetches, rLog, pipeVars, verVars, fetchVars>>

NextRate ==
    \/ RateCreateFetcher
    \/ RateFetch
    \/ RateTick
    \/ RateReturn

SpecRate == InitRate /\ [][NextRate]_vars

-----------------------------------------------------------------------------
(* Properties of Pipeline.process_url / process_urls (specification Spec) *)

C2_DiscoveryExhaustionContinues ==
    (pc = "idle" /\ idx > 1 /\ hist.exhausted = "discover")
        => ("verify" \in hist.ops /\ outcomes[idx - 1].kind # "soft")

\* C3: for content classified as a feed or as script-heavy, the Discover step
\* never invokes the oracle.
C3_HeuristicContentSkipsOracle ==
    hist.heuristics => hist.oracle_calls = 0

\* C4, as stated: once a fetch of the Fetch step has raised BotDetected, the
\* fetch is not retried: no further fetch is made for the URL.
C4_BotDetectionNeverRetried ==
    (hist.via = "discovery" /\ hist.bot_at > 0) => hist.fetch_calls = hist.bot_at

\* C4, amended: the Fetch step makes at most max_fetch_retries fetches (one
\* when max_fetch_retries is below 1), a fetch that raised BotDetected being
\* retried like any other failed one; discovery and verification start only
\* after a fetch that returned usable HTML; and a URL whose last fetch raised
\* BotDetected ends after that many fetches, not successful, with no
\* discovery, verification, extraction or persistence.
C4_BotDetectionRetriedThenStops ==
    /\ hist.step_fetches <= Attempts(args.max_fetch_retries)
    /\ (pc \in {"discover", "verify"} => hist.last_fetch = "ok")
    /\ (pc = "idle" /\ idx > 1 /\ hist.via = "discovery" /\ hist.last_fetch = "bot")
          => /\ hist.step_fetches = Attempts(args.max_fetch_retries)
             /\ hist.oracle_calls = 0
             /\ hist.ops = {}
             /\ outcomes[idx - 1].ret = "False"
             /\ files = hist.pre.files
             /\ content = hist.pre.content
             /\ tracking = hist.pre.tracking

\* C4 witness: BotDetected was raised, the fetch was retried, the retry raised
\* BotDetected too, and the URL ended there.
C4_Witness ==
    /\ pc = "idle" /\ idx > 1
    /\ hist.via = "discovery"
    /\ hist.last_fetch = "bot"
    /\ hist.bot_at = 1
    /\ hist.step_fetches = 2

\* C5: a hard-abort (the last fetch raised BotDetected) and a soft-failure
\* (fetch or discovery retries exhausted) are never reported by the same
\* result of process_url.
C5_HardAbortDistinctFromSoftFailure ==
    \A i, j \in 1..Len(outcomes) :
        (outcomes[i].kind = "hard" /\ outcomes[j].kind = "soft")
            => outcomes[i].ret # outcomes[j].ret

\* C6: with a valid fetcher type, url_count of a domain is the number of URLs
\* of that domain that were processed, whatever their outcome.
C6_UrlCountCountsEveryProcessedUrl ==
    args.fetcher_ok =>
    \A u \in UrlPool :
        get_stats(tracking, TrackerDomain(u)).url_count
            = Cardinality({i \in 1..Len(outcomes) : TrackerDomain(urls[i]) = TrackerDomain(u)})

\* C7: when the processing of a URL has ended, llm_calls (oracle_calls) of its
\* domain has grown by the number of oracle invocations made for it, and that
\* of every other domain is as it was.
C7_OracleCallsCountEveryInvocation ==
    (pc = "idle" /\ idx > 1) =>
        \A u \in UrlPool :
            get_stats(tracking, TrackerDomain(u)).llm_calls
                = get_stats(hist.pre.tracking, TrackerDomain(u)).llm_calls
                  + (IF TrackerDomain(u) = TrackerDomain(urls[idx - 1]) THEN hist.oracle_calls ELSE 0)

\* C8: every URL processed so far is recorded exactly once, under successful
\* when process_url returned True and under failed when it returned False or
\* raised, each list in input order; and the loop goes on to the next URL
\* after every outcome, an exception included.
C8_BatchRecordsEveryUrlOnceInOrder ==
    LET picked[k \in 0..Len(outcomes)] ==
            IF k = 0 THEN [successful |-> <<>>, failed |-> <<>>]
            ELSE IF outcomes[k].ret = "True"
                 THEN [picked[k - 1] EXCEPT !.successful = Append(@, urls[k])]
                 ELSE [picked[k - 1] EXCEPT !.failed = Append(@, urls[k])]
    IN  /\ pc # "off" => Len(outcomes) = idx - 1
        /\ idx <= Len(urls) + 1
        /\ results = picked[Len(outcomes)]
        /\ Len(results.successful) + Len(results.failed) = Len(outcomes)
        /\ (pc = "idle" /\ idx <= Len(urls)) => ENABLED BeginUrl

\* C8 witness: process_urls returned for a batch of two whose first URL raised
\* an exception and whose second URL succeeded.
C8_Witness ==
    /\ Done
    /\ Len(urls) = 2
    /\ outcomes[1].ret = "raise"
    /\ outcomes[2].ret = "True"
    /\ results = [successful |-> <<urls[2]>>, failed |-> <<urls[1]>>]

-----------------------------------------------------------------------------
(* Properties of SelectorVerifier.verify (specification SpecVerify) *)

\* C9: for every field result, the working tier is the first of primary,
\* fallback, tertiary whose selector matches a node (primary whenever primary
\* matches), the tiers recorded as failed are exactly the ones before it, and
\* a field is failed only when no tier matches, all three being recorded.
C9_FirstMatchingTierWins ==
    \A i \in 1..Len(vResults) :
        LET r     == vResults[i][2]
            fd    == AsFieldData(DictGet(vSelectors, vResults[i][1]))
            order == <<"primary", "fallback", "tertiary">>
            matches(level) ==
                /\ fd[level].kind = "css"
                /\ \E k \in 1..Len(vHtml) : NodeMatches(vHtml[k], fd[level])
            first == {k \in 1..3 : matches(order[k]) /\ \A j \in 1..(k - 1) : ~matches(order[j])}
            recorded == [j \in 1..Len(r.failed_selectors) |-> r.failed_selectors[j].level]
        IN  IF first = {}
            THEN r.status = "failed" /\ recorded = order
            ELSE \A k \in first :
                    /\ r.status = "verified"
                    /\ r.working_level = order[k]
                    /\ r.selector = fd[order[k]]
                    /\ recorded = SubSeq(order, 1, k - 1)

\* C9 witness: a field verified at primary although its fallback matches too,
\* and another result verified at fallback after primary failed.
C9_Witness ==
    /\ vPc = "done"
    /\ \E i \in 1..Len(vResults) :
          LET r  == vResults[i][2]
              fd == AsFieldData(DictGet(vSelectors, vResults[i][1]))
          IN  /\ r.working_level = "primary"
              /\ r.failed_selectors = <<>>
              /\ fd.fallback.kind = "css"
              /\ \E k \in 1..Len(vHtml) : NodeMatches(vHtml[k], fd.fallback)
    /\ \E i \in 1..Len(vResults) :
          /\ vResults[i][2].working_level = "fallback"
          /\ Len(vResults[i][2].failed_selectors) = 1

\* C10: a field is verified at a working level only if the selector of that
\* level is a selector that matches at least one node of the HTML given to
\* verify; the returned result counts exactly those fields.
C10_WorkingTierMatchesANode ==
    LET sound(rs) ==
            \A i \in 1..Len(rs) :
                rs[i][2].status = "verified" =>
                    /\ rs[i][2].selector.kind = "css"
                    /\ rs[i][2].selector
                         = AsFieldData(DictGet(vSelectors, rs[i][1]))[rs[i][2].working_level]
                    /\ \E k \in 1..Len(vHtml) : NodeMatches(vHtml[k], rs[i][2].selector)
    IN  /\ sound(vResults)
        /\ vPc = "done" =>
              /\ sound(vResult.results)
              /\ vResult.results = vResults
              /\ vResult.verified_count
                   = Cardinality({i \in 1..Len(vResults) : vResults[i][2].status = "verified"})

\* C10 witness: verify returned with one field verified and another failed
\* because its selectors matched no node.
C10_Witness ==
    /\ vPc = "done"
    /\ \E i, j \in 1..Len(vResult.results) :
          /\ vResult.results[i][2].status = "verified"
          /\ vResult.results[j][2].status = "failed"
          /\ \E k \in 1..Len(vResult.results[j][2].failed_selectors) :
                vResult.results[j][2].failed_selectors[k].reason = "no_elements_found"

\* C11: for every candidate map whose values are field dicts (a tier may be a
\* selector, 'NA', an invalid selector, None or missing), no field's failure
\* aborts verify: no exception leaves it, and the result it returns has an
\* entry for every field of the map.
C11_VerifyReturnsEntryForEveryField ==
    (\A i \in 1..Len(vSelectors) : ~HasNoGet(vSelectors[i][2]))
        => /\ vPc # "raised"
           /\ vPc = "done" =>
                 /\ ~vResult.raised
                 /\ \A i \in 1..Len(vSelectors) : DictHas(vResult.results, vSelectors[i][1])

-----------------------------------------------------------------------------
(* Further properties of Pipeline.process_url (specification Spec) *)

\* the number of failed fields from which a cached entry is to be rejected
FailedFieldThreshold == 2

\* C15: when re-verification of the cached entry fails for at least
\* FailedFieldThreshold fields, the URL is not reported as a cache hit: the
\* pipeline falls through to fetch and discovery.
C15_TooManyFailedFieldsInvalidateCache ==
    hist.reverify_failed >= FailedFieldThreshold
        => ~(pc = "idle" /\ idx > 1 /\ hist.via = "cache" /\ outcomes[idx - 1].ret = "True")

\* the selector map stored in the file of the domain of url ("selectors" entry)
StoredSelectors(fs, url) ==
    DictGet(DictGet(fs, SelectorFilepath(StorageDomain(url))), "selectors").items

\* C16, as stated: whatever the flags, the selector files change only when the
\* selectors being stored have just passed verification for the current URL.
C16_CacheWrittenOnlyAfterVerification ==
    (pc = "idle" /\ idx > 1 /\ files # hist.pre.files) => hist.verified = "passed"

\* C16, amended: the selector files change only at the end of a URL that went
\* through fetch and discovery, and only the file of that URL's domain; unless
\* skip_verification is set, what is stored is a non-empty map every field of
\* which verifies against the cleaned HTML fetched for this URL; with
\* skip_verification the discovered map is stored without verification. The
\* cached paths never write the selector files.
C16_CacheWrittenAfterVerificationUnlessSkipped ==
    /\ (pc # "idle" /\ pc # "off") => files = hist.pre.files
    /\ (pc = "idle" /\ idx > 1 /\ files # hist.pre.files) =>
          /\ hist.via = "discovery"
          /\ "save_selectors" \in hist.ops
          /\ hist.oracle_calls >= 1
          /\ outcomes[idx - 1].ret = "True"
          /\ \A u \in UrlPool :
                StorageDomain(u) # StorageDomain(urls[idx - 1])
                    => load_selectors(files, StorageDomain(u))
                         = load_selectors(hist.pre.files, StorageDomain(u))
          /\ IF args.skip_verification
             THEN hist.verified = "skipped"
             ELSE /\ hist.verified = "passed"
                  /\ StoredSelectors(files, urls[idx - 1]) # <<>>
                  /\ \A i \in 1..Len(StoredSelectors(files, urls[idx - 1])) :
                        verify_field(hist.verify_html,
                                     StoredSelectors(files, urls[idx - 1])[i][1],
                                     StoredSelectors(files, urls[idx - 1])[i][2]).status = "verified"

\* C16 witness: with skip_verification set, a discovered map none of whose
\* fields matches the fetched page was stored in the selector file.
C16_Witness ==
    /\ pc = "idle" /\ idx > 1
    /\ files # hist.pre.files
    /\ args.skip_verification
    /\ hist.verified = "skipped"
    /\ "save_selectors" \in hist.ops
    /\ ~VerificationSuccess(verify(hist.verify_html, StoredSelectors(files, urls[idx - 1])))

\* C17: after a selector map was saved for a URL, loading the selectors of
\* that URL's domain returns a map with the same fields, each with the same
\* primary, fallback and tertiary values.
C17_SelectorCacheRoundTrips ==
    (pc = "idle" /\ idx > 1 /\ "save_selectors" \in hist.ops) =>
        LET loaded == load_selectors(files, StorageDomain(urls[idx - 1]))
        IN  /\ loaded.ret = "dict"
            /\ Len(loaded.dict) = Len(hist.saved)
            /\ \A i \in 1..Len(hist.saved) :
                  /\ DictHas(loaded.dict, hist.saved[i][1])
                  /\ \A tier \in {"primary", "fallback", "tertiary"} :
                        AsFieldData(DictGet(loaded.dict, hist.saved[i][1]))[tier]
                            = hist.saved[i][2][tier]

C19_OracleCallsBoundedByRetries ==
    /\ hist.oracle_calls <= args.max_discovery_retries
    /\ pc = "discover" => frame.disc_attempt = hist.oracle_calls + 1

\* C19, amended: for each URL the oracle is invoked at most
\* max_discovery_retries times, and once when max_discovery_retries is below
\* 1; every attempt of the Discover step either ends the step or uses up one
\* of these attempts, so the step ends after at most that many attempts.
C19_OracleCallsBoundedByAttempts ==
    /\ hist.oracle_calls <= Attempts(args.max_discovery_retries)
    /\ pc = "discover" =>
          /\ frame.disc_attempt = hist.oracle_calls + 1
          /\ frame.disc_attempt <= Attempts(args.max_discovery_retries)
    /\ hist.exhausted = "discover" => hist.oracle_calls = Attempts(args.max_discovery_retries)

\* C19 witness: with max_discovery_retries = 0 the oracle was invoked once
\* and the Discover step ended exhausted.
C19_Witness ==
    /\ pc = "idle" /\ idx > 1
    /\ args.max_discovery_retries = 0
    /\ hist.oracle_calls = 1
    /\ hist.exhausted = "discover"

\* C20, as stated: when every fetch made for a URL returned a result that is
\* not a success, without raising, process_url returns False, the oracle was
\* not invoked and the selector files were not written.
C20_FailedFetchesGiveSoftFailure ==
    (pc = "idle" /\ idx > 1 /\ hist.fetch_kinds = {"fail"})
        => /\ outcomes[idx - 1].ret = "False"
           /\ hist.oracle_calls = 0
           /\ files = hist.pre.files

\* C20, amended: when every fetch made for a URL returned a result that is
\* not a success, without raising, the oracle was not invoked and the
\* selector files were not written; process_url returns False after the
\* attempts of the Fetch step are used up, with no usage recorded, when that
\* step was reached (force, or no entry for the domain); when an entry exists
\* and force is not set, the one fetch of the cached path failing makes it
\* return True, the URL being recorded as a cached success.
C20_FailedFetchesFailUnlessCached ==
    (pc = "idle" /\ idx > 1 /\ hist.fetch_kinds = {"fail"})
        => /\ hist.oracle_calls = 0
           /\ files = hist.pre.files
           /\ content = hist.pre.content
           /\ IF hist.via = "cache"
              THEN /\ ~args.force
                   /\ DictHas(hist.pre.files, SelectorFilepath(PipelineDomain(urls[idx - 1])))
                   /\ hist.fetch_calls = 1
                   /\ outcomes[idx - 1].ret = "True"
                   /\ tracking = track_cached_success(hist.pre.tracking, urls[idx - 1])
              ELSE /\ hist.fetch_calls = Attempts(args.max_fetch_retries)
                   /\ hist.exhausted = "fetch"
                   /\ outcomes[idx - 1].ret = "False"
                   /\ outcomes[idx - 1].kind = "soft"
                   /\ tracking = hist.pre.tracking

\* C20 witness: two fetch attempts, both returning no HTML, used up the Fetch
\* step and process_url returned False.
C20_Witness ==
    /\ pc = "idle" /\ idx > 1
    /\ hist.fetch_kinds = {"fail"}
    /\ hist.via = "discovery"
    /\ hist.step_fetches = 2
    /\ outcomes[idx - 1].ret = "False"

-----------------------------------------------------------------------------
(* Properties of the fetch tiers (specification SpecFetch) *)

\* C12: WaterfallFetch attempts SimpleFetch first; when SimpleFetch returns a
\* successful result, that result is returned and BrowserFetch is not
\* attempted; when SimpleFetch raises BotDetected, BrowserFetch is attempted
\* exactly once, and a BotDetected it raises propagates to the caller.
C12_WaterfallEscalatesOnBotDetected ==
    /\ fCalls \in { <<>>, <<"simple">>, <<"simple", "browser">> }
    /\ fPc = "browser" => fCalls = <<"simple">>
    /\ fPc = "done" =>
          /\ (fSimple.raises = "none" /\ success(fSimple.result))
                => (fCalls = <<"simple">> /\ fSmart = fSimple)
          /\ fSimple.raises = "BotDetectionError" => fCalls = <<"simple", "browser">>
          /\ (fCalls = <<"simple", "browser">> /\ fBrowser.raises = "BotDetectionError")
                => fSmart.raises = "BotDetectionError"

\* C12 witness: a 403 response showing "please verify you are human" made
\* SimpleFetch raise BotDetected, BrowserFetch was attempted and its
\* BotDetected reached the caller.
C12_Witness ==
    /\ fPc = "done"
    /\ fResponse.status_code = 403
    /\ fResponse.html.text = "please verify you are human"
    /\ fSimple.raises = "BotDetectionError"
    /\ fCalls = <<"simple", "browser">>
    /\ fBrowser.raises = "BotDetectionError"
    /\ fSmart.raises = "BotDetectionError"

\* C13, as stated: in every fetch tier a non-block error that leaves no HTML
\* is returned as a result with is_blocked false, html None and block_reason
\* set, and BotDetected is the only exception a tier ever raises.
C13_OnlyBotDetectedIsEverRaised ==
    LET returned_error(out) ==
            /\ out.raises = "none"
            /\ out.result.html = NoBody
            /\ ~out.result.is_blocked
            /\ out.result.block_reason # ""
    IN  /\ \A out \in {fSimple, fBrowser, fSmart} :
              out.raises \in {"none yet", "none", "BotDetectionError"}
        /\ (fCalls # <<>> /\ fResponse.kind = "error") => returned_error(fSimple)
        /\ (Len(fCalls) = 2 /\ fRendered.kind \in {"error", "not_installed"})
              => (returned_error(fBrowser) /\ returned_error(fSmart))

\* C13, amended: SimpleFetch and WaterfallFetch raise nothing but BotDetected,
\* and BrowserFetch raises nothing but BotDetected and the ImportError of a
\* missing browser engine; an error of the HTTP request or of the rendering
\* is returned by its tier as a result with is_blocked false, html None and
\* block_reason set, and the ImportError of BrowserFetch is returned in that
\* form by WaterfallFetch.
C13_NonBlockErrorsReturnedExceptMissingBrowser ==
    LET returned_error(out) ==
            /\ out.raises = "none"
            /\ out.result.html = NoBody
            /\ ~out.result.is_blocked
            /\ out.result.block_reason # ""
    IN  /\ \A out \in {fSimple, fSmart} :
              out.raises \in {"none yet", "none", "BotDetectionError"}
        /\ fBrowser.raises \in {"none yet", "none", "BotDetectionError", "ImportError"}
        /\ fBrowser.raises = "ImportError" <=> (Len(fCalls) = 2 /\ fRendered.kind = "not_installed")
        /\ (fCalls # <<>> /\ fResponse.kind = "error") => returned_error(fSimple)
        /\ (Len(fCalls) = 2 /\ fRendered.kind = "error")
              => (returned_error(fBrowser) /\ fSmart = fBrowser)
        /\ (Len(fCalls) = 2 /\ fRendered.kind = "not_installed") => returned_error(fSmart)

\* C13 witness: the HTTP request failed and was returned as a result, the
\* browser engine was missing, BrowserFetch raised ImportError and
\* WaterfallFetch returned it as a result.
C13_Witness ==
    /\ fPc = "done"
    /\ fResponse.kind = "error"
    /\ fSimple.raises = "none"
    /\ fSimple.result.html = NoBody
    /\ fBrowser.raises = "ImportError"
    /\ fSmart.raises = "none"
    /\ fSmart.result.block_reason = "All methods failed"

\* C14: for every response with status code 403, 429 or 503, whatever its
\* body, SimpleFetch raises BotDetected.
C14_BlockStatusAlwaysRaisesBotDetected ==
    (fCalls # <<>> /\ fResponse.kind = "response" /\ fResponse.status_code \in {403, 429, 503})
        => fSimple.raises = "BotDetectionError"

-----------------------------------------------------------------------------
(* Properties of ContentExtractor after verify (specification SpecVerify) *)

-----------------------------------------------------------------------------
(* Properties of the request delay (specification SpecRate) *)

\* C22: any two requests sent to one domain, those made for successive URLs
\* of one batch included, are at least min_delay apart.
C22_RequestsToOneDomainAreSpaced ==
    \A i, j \in 1..Len(rLog) :
        (i < j /\ rLog[i].domain = rLog[j].domain)
            => rLog[j].time - rLog[i].time >= min_delay

-----------------------------------------------------------------------------
(* Further properties of SelectorVerifier.verify (specification SpecVerify) *)

\* C23: a tier whose value is the NA sentinel is always skipped by the
\* verifier: it is not evaluated against the HTML (it is not the working tier
\* even when the HTML has an <na> element the sentinel would match as a
\* selector), and whenever it is recorded its reason is na_selector, never
\* no_elements_found or invalid_syntax.
C23_NATierIsAlwaysSkipped ==
    LET skipped(rs) ==
            \A i \in 1..Len(rs) :
                LET r  == rs[i][2]
                    fd == AsFieldData(DictGet(vSelectors, rs[i][1]))
                IN  /\ r.status = "verified" =>
                          /\ r.selector # NA
                          /\ fd[r.working_level] # NA
                    /\ \A j \in 1..Len(r.failed_selectors) :
                          LET f == r.failed_selectors[j]
                          IN  (f.selector = NA \/ fd[f.level] = NA)
                                  => /\ f.selector = NA
                                     /\ fd[f.level] = NA
                                     /\ f.reason = "na_selector"
                    /\ \A level \in {"primary", "fallback", "tertiary"} :
                          (fd[level] = NA /\ r.status = "failed")
                              => \E j \in 1..Len(r.failed_selectors) :
                                    /\ r.failed_selectors[j].level = level
                                    /\ r.failed_selectors[j].reason = "na_selector"
    IN  /\ skipped(vResults)
        /\ vPc = "done" => skipped(vResult.results)

\* C23 witness: verify returned for an HTML with an <na> element; a field
\* whose primary is the NA sentinel has it recorded as na_selector and is
\* verified at fallback.
C23_Witness ==
    /\ vPc = "done"
    /\ \E k \in 1..Len(vHtml) : vHtml[k].tag = "na"
    /\ \E i \in 1..Len(vResult.results) :
          LET r  == vResult.results[i][2]
              fd == AsFieldData(DictGet(vSelectors, vResult.results[i][1]))
          IN  /\ fd.primary = NA
              /\ r.status = "verified"
              /\ r.working_level = "fallback"
              /\ r.failed_selectors
                   = << [level |-> "primary", selector |-> NA, reason |-> "na_selector"] >>

\* C24: every VerificationResult verify returns has total_fields equal to the
\* number of fields of the candidate map and verified_count equal to the
\* number of per-field results whose status is verified, and its success
\* holds exactly when verified_count >= 1 (exactly when some field verified);
\* only a successful result is followed by extraction.
C24_OutcomeCountsAndSuccess ==
    /\ vPc = "done" =>
          LET verified == {i \in 1..Len(vResult.results) :
                               vResult.results[i][2].status = "verified"}
          IN  /\ ~vResult.raised
              /\ vResult.total_fields = Len(vSelectors)
              /\ Len(vResult.results) = Len(vSelectors)
              /\ vResult.verified_count = Cardinality(verified)
              /\ vResult.verified_count <= vResult.total_fields
              /\ VerificationSuccess(vResult) <=> vResult.verified_count >= 1
              /\ VerificationSuccess(vResult) <=> verified # {}
    /\ vExtracted # NotExtracted => (vPc = "done" /\ vResult.verified_count >= 1)

\* C24 witness: verify returned a result for two fields of which exactly one
\* verified, and the result counted as a success (extraction followed).
C24_Witness ==
    /\ vPc = "done"
    /\ vResult.total_fields = 2
    /\ vResult.verified_count = 1
    /\ \E i \in 1..2 : vResult.results[i][2].status = "failed"
    /\ vExtracted # NotExtracted

-----------------------------------------------------------------------------
(* Further properties of the fetch tiers (specification SpecFetch) *)

\* C25, as stated: a response with status 200 is treated as blocked (the tier
\* raises BotDetected or returns a result flagged as blocked) only if one of
\* the explicit block-page markers occurs within its first 2000 characters.
C25_Status200BlockedOnlyByMarker ==
    LET flagged(out) == out.raises = "BotDetectionError" \/ out.result.is_blocked
    IN  /\ (fSimple # Raised("none yet") /\ fResponse.kind = "response"
                /\ fResponse.status_code = 200 /\ flagged(fSimple))
              => StrictIndicator(fResponse.html.text)
        /\ (fBrowser # Raised("none yet") /\ fRendered.kind = "response"
                /\ fRendered.status_code = 200 /\ flagged(fBrowser))
              => StrictIndicator(fRendered.html.text)

\* C25, amended: a response with status 200 is treated as blocked exactly
\* when its body is empty or shorter than MinHtmlLen characters, or one of the
\* explicit block-page markers occurs within its first 2000 characters; a
\* status-200 response of at least MinHtmlLen characters with no marker in
\* that window is never flagged as blocked, wherever else a marker occurs.
C25_Status200BlockedByMarkerOrShortBody ==
    LET flagged(out) == out.raises = "BotDetectionError" \/ out.result.is_blocked
        blocked(html) == html.len < MinHtmlLen
                           \/ html.text \in {"please verify you are human", "cf-captcha"}
    IN  /\ (fSimple # Raised("none yet") /\ fResponse.kind = "response"
                /\ fResponse.status_code = 200)
              => /\ flagged(fSimple) <=> blocked(fResponse.html)
                 /\ ~flagged(fSimple) => (fSimple.result.html = fResponse.html /\ fSmart = fSimple)
        /\ (fBrowser # Raised("none yet") /\ fRendered.kind = "response"
                /\ fRendered.status_code = 200)
              => /\ flagged(fBrowser) <=> blocked(fRendered.html)
                 /\ ~flagged(fBrowser) => fBrowser.result.html = fRendered.html

\* C25 witness: a status-200 response longer than 2000 characters whose only
\* marker lies after the first 2000 characters was fetched and returned as a
\* successful result.
C25_Witness ==
    /\ fPc = "done"
    /\ fResponse = HttpResponse(200, LongBody("", "cf-captcha"))
    /\ fSimple.raises = "none"
    /\ ~fSimple.result.is_blocked
    /\ success(fSmart.result)
    /\ fCalls = <<"simple">>

-----------------------------------------------------------------------------
(* Further properties of Pipeline.process_url / process_urls (specification Spec) *)

\* C26: if a fetch made for a URL raised BotDetected and no later fetch for
\* that URL succeeded, the URL is not reported as successful: process_url did
\* not return True for it and process_urls did not list it under successful,
\* whatever force, skip_verification and the cache are.
C26_BotDetectedUrlIsNeverSuccessful ==
    (pc = "idle" /\ idx > 1 /\ "bot" \in hist.fetch_kinds /\ hist.last_fetch # "ok")
        => /\ outcomes[idx - 1].ret # "True"
           /\ Len(results.successful)
                = Cardinality({k \in 1..(idx - 2) : outcomes[k].ret = "True"})

\* C27: SmartFetcher calls the browser tier whenever SimpleFetcher does not
\* yield a successful result, both when it raises BotDetected and when it
\* returns a result that is not successful (a network error, or a too-short
\* or empty body returned as blocked), and then what the caller receives is
\* the outcome of the browser tier, not that of SimpleFetcher: the browser's
\* result, its BotDetected, or its failure handed back as a failed result.
C27_BrowserTierDecidesWheneverSimpleFails ==
    LET simple_ok == fSimple.raises = "none" /\ success(fSimple.result)
    IN  /\ fPc = "browser" => (fCalls = <<"simple">> /\ ~simple_ok)
        /\ fPc = "done" =>
              IF simple_ok
              THEN fCalls = <<"simple">> /\ fSmart = fSimple
              ELSE /\ fCalls = <<"simple", "browser">>
                   /\ fSimple.raises \in {"none", "BotDetectionError"}
                   /\ fBrowser # Raised("none yet")
                   /\ fBrowser.raises \in {"none", "BotDetectionError"} => fSmart = fBrowser
                   /\ fBrowser.raises \notin {"none", "BotDetectionError"} =>
                         /\ fSmart.raises = "none"
                         /\ fSmart.result.html = NoBody
                         /\ ~fSmart.result.is_blocked
                         /\ ~success(fSmart.result)

\* C27 witness: SimpleFetcher returned a too-short body as a blocked result
\* without raising, the browser tier was called, and the caller received the
\* browser's successful result.
C27_Witness ==
    /\ fPc = "done"
    /\ fSimple.raises = "none"
    /\ fSimple.result.is_blocked
    /\ fSimple.result.block_reason = "Response too short or empty"
    /\ fCalls = <<"simple", "browser">>
    /\ fBrowser.raises = "none"
    /\ success(fBrowser.result)
    /\ fSmart = fBrowser
    /\ fSmart # fSimple

\* C28: for every URL, once process_url has saved selectors for it, a later
\* process_url of that URL without force finds the cache entry: the key under
\* which the orchestrator looks the cache up is the key under which the
\* storage layer saved the entry.
C28_SavedEntryIsFoundAgain ==
    (pc = "cached" /\ DictHas(files, SelectorFilepath(StorageDomain(frame.url))))
        => /\ load_selectors(files, PipelineDomain(frame.url)).ret = "dict"
           /\ SelectorFilepath(PipelineDomain(frame.url))
                = SelectorFilepath(StorageDomain(frame.url))

C30_UsageCountersStayOrdered ==
    LET url == IF pc = "idle" THEN (IF idx > 1 THEN urls[idx - 1] ELSE Url(<<>>, ""))
               ELSE frame.url
        own == TrackerDomain(url)
        domains == {tracking[i][1] : i \in 1..Len(tracking)}
                     \cup {hist.pre.tracking[i][1] : i \in 1..Len(hist.pre.tracking)}
    IN  /\ \A i \in 1..Len(tracking) :
              /\ 0 <= tracking[i][2].llm_calls
              /\ tracking[i][2].llm_calls <= tracking[i][2].url_count
        /\ \A i, j \in 1..Len(tracking) : tracking[i][1] = tracking[j][1] => i = j
        /\ (pc = "idle" /\ idx = 1) => tracking = <<>>
        /\ \A d \in domains :
              LET before == get_stats(hist.pre.tracking, d)
                  after  == get_stats(tracking, d)
              IN  IF d = own
                  THEN /\ after.url_count - before.url_count \in {0, 1}
                       /\ after.llm_calls - before.llm_calls \in {0, 1}
                  ELSE after = before

\* C30 witness: two URLs of one domain were processed, the first through the
\* oracle and the second from the cache; the domain's counters are
\* llm_calls = 1 and url_count = 2, the last call having added 1 to url_count
\* and 0 to llm_calls.
C30_Witness ==
    /\ pc = "idle" /\ idx = 3
    /\ get_stats(tracking, TrackerDomain(urls[2])) = [llm_calls |-> 1, url_count |-> 2]
    /\ get_stats(hist.pre.tracking, TrackerDomain(urls[2])) = [llm_calls |-> 1, url_count |-> 1]

=============================================================================
